---- MODULE Spec2Model ----
(***************************************************************************)
(* Model of the Bulls-live candle aggregation and strategy dispatch core:  *)
(* StrategyMaintainer (src/stratagy_maintain.py) fed by the websocket      *)
(* callback of WebSocketManager (src/socket_setup.py) and driven by main   *)
(* (src/mai.py).                                                           *)
(*                                                                         *)
(* Threads: "main" issues add_strategy / stop_strategy /                   *)
(* stop_all_strategies; on_data puts every message in the executor's      *)
(* queue, and the executor's workers take them from it and run             *)
(* process_tick, which calls update_dataframes.  Every method body runs    *)
(* under the single                                                        *)
(* threading.Lock of the maintainer.  External calls made while the lock   *)
(* is held (getCandleData, the strategy function, placeOrder) are separate *)
(* steps, so that other threads can be observed waiting during them.       *)
(***************************************************************************)
EXTENDS Integers, Sequences, FiniteSets, TLC

VARIABLES
    instrument_timeframe_map,  \* self.instrument_timeframe_map
    dataframes,                \* self.dataframes
    lock,                      \* self.lock: "free" or the holding thread
    pc,                        \* position of every thread
    cur,                       \* locals of update_dataframes, per worker
    call,                      \* locals of main's current / latest call
    placed,                    \* latest smart_api.placeOrder call, as the broker saw it
    ticksLeft,                 \* messages the feed may still deliver
    callsLeft,                 \* control calls main may still make
    run,                       \* history: prices folded into each key's last candle since a tick opened it
    removed,                   \* history: keys whose stop has returned and that were not added since
    lost,                      \* history: keys whose latest removal threw away a candle opened by a tick
    obs,                       \* history: the log of what the threads did, kept when obs.on
    queue                      \* the executor's work queue: messages submitted, not yet started

vars == <<instrument_timeframe_map, dataframes, lock, pc, cur, call, placed,
          ticksLeft, callsLeft, run, removed, lost, obs, queue>>

----------------------------------------------------------------------------
(* Bounds of the model *)

MaxTicks == 2       \* messages the feed delivers, one producer
MaxCalls == 3       \* control calls of main, one producer
ConcTicks == 3      \* messages the feed delivers, three pool workers
ConcCalls == 3      \* control calls of main, three pool workers
ParTicks == 3       \* messages the feed delivers, one producer per instrument
CfgTicks == 2       \* messages the feed delivers, registrations of every kind
CfgCalls == 2       \* add_strategy calls of main, registrations of every kind
PoolTicks == 3      \* messages the feed delivers, one instrument and three pool workers
AddTicks == 3       \* messages the feed delivers, main only adds
LockTicks == 3      \* messages the feed delivers, every exit path
LockCalls == 2      \* control calls of main, every exit path
AddCalls == 2       \* add_strategy calls of main, main only adds
BucketTicks == 3    \* messages the feed delivers, ticks inside one bucket

(* Threads and inputs *)

\* mai.py line 30: four pool threads, one of which stays in the websocket's
\* connect() and runs on_data; three run process_tick.
Workers == {"w1", "w2", "w3"}
Main == "main"
Threads == Workers \cup {Main}

Instruments == {"3045", "99926000"}
\* "2m" is a timeframe timeframe_map does not have.
Timeframes == {"1m", "3m", "2m"}
Keys == Instruments \X Timeframes
Parameters == {"p14_3_10"}

\* What getCandleData may do: raise, or return candles (prices in paise, local
\* time in milliseconds with its UTC offset).
RawCandle(local, price) ==
    [iso |-> [local |-> local, offset |-> "+05:30"],
     open |-> price, high |-> price, low |-> price, close |-> price]

Responses ==
    {[raises |-> TRUE, data |-> <<>>],
     [raises |-> FALSE, data |-> <<RawCandle(19800000, 200)>>]}

\* None, where getCandleData has no price for a candle; prices are positive.
Null == -1

\* getCandleData returns one candle, of 05:31, without prices.
NullResponse == [raises |-> FALSE, data |-> <<RawCandle(19860000, Null)>>]

\* The inputs of a specification.  The model keeps every price in paise and
\* every time in milliseconds, so that the divisions of parse_tick_data (by 100
\* and by 1000) lose nothing.
\* One producer: one instrument with two timeframes, the tasks run by one worker.
SeqInputs ==
    [workers |-> {"w1"},
     instruments |-> {"99926000"},
     timeframes |-> {"1m", "3m"},
     strategy_names |-> {"SuperTrend"},
     prices |-> {100, 300},
     times |-> {60000, 200000},
     responses |-> Responses]

\* The pool while main makes its calls: the instrument of mai.py with one
\* timeframe, fed through the three workers.
ConcInputs ==
    [workers |-> {"w1", "w2", "w3"},
     instruments |-> {"3045"},
     timeframes |-> {"1m"},
     strategy_names |-> {"SuperTrend"},
     prices |-> {100},
     times |-> {0, 200000},
     responses |-> Responses]

\* One producer per instrument: both instruments registered with two
\* timeframes before the feed starts.
ParInputs ==
    [workers |-> {"w1", "w2"},
     instruments |-> {"3045", "99926000"},
     timeframes |-> {"1m", "3m"},
     strategy_names |-> {"SuperTrend"},
     prices |-> {100},
     times |-> {0, 200000},
     responses |-> Responses]

\* Registrations of every kind: a timeframe timeframe_map does not have and a
\* strategy name strategy.py does not define among them.
CfgInputs ==
    [workers |-> {"w1"},
     instruments |-> {"99926000"},
     timeframes |-> {"1m", "2m"},
     strategy_names |-> {"SuperTrend", "Momentum"},
     prices |-> {100},
     times |-> {0, 200000},
     responses |-> Responses]

\* Main only adds: one instrument with one timeframe, fed through the three
\* workers.
AddInputs ==
    [workers |-> {"w1", "w2", "w3"},
     instruments |-> {"99926000"},
     timeframes |-> {"1m"},
     strategy_names |-> {"SuperTrend"},
     prices |-> {100},
     times |-> {200000},
     responses |-> Responses]

\* The executor's pool: one registered instrument, fed through the three
\* workers.
PoolInputs ==
    [workers |-> {"w1", "w2", "w3"},
     instruments |-> {"3045"},
     timeframes |-> {"1m"},
     strategy_names |-> {"SuperTrend"},
     prices |-> {100, 300},
     times |-> {0, 60000},
     responses |-> Responses]

\* Ticks inside one bucket: one registered instrument with two timeframes,
\* three times of the minute 05:31 and one of 05:33, the tasks run by one
\* worker.
BucketInputs ==
    [workers |-> {"w1"},
     instruments |-> {"99926000"},
     timeframes |-> {"1m", "3m"},
     strategy_names |-> {"SuperTrend"},
     prices |-> {100, 300},
     times |-> {60000, 90000, 100000, 200000},
     responses |-> Responses]

\* Every exit path: an empty instrument among the arguments of main, a
\* candle without prices among the answers of getCandleData, the three
\* workers.
LockInputs ==
    [workers |-> {"w1", "w2", "w3"},
     instruments |-> {"", "3045"},
     timeframes |-> {"1m"},
     strategy_names |-> {"SuperTrend"},
     prices |-> {100},
     times |-> {60000},
     responses |-> {r \in Responses : r.raises} \cup {NullResponse}]

\* Raw websocket messages: price in paise, exchange time in milliseconds (UTC).
Messages(in) ==
    [token : in.instruments,
     last_traded_price : in.prices,
     exchange_timestamp : in.times]

----------------------------------------------------------------------------
(* Dictionaries that are iterated keep their insertion order: a sequence   *)
(* of [key, val] entries.                                                  *)

DictKeys(d) == {d[n].key : n \in 1..Len(d)}

DictHas(d, k) == k \in DictKeys(d)

DictIndex(d, k) == CHOOSE n \in 1..Len(d) : d[n].key = k

DictGet(d, k) == d[DictIndex(d, k)].val

DictPut(d, k, v) ==
    IF DictHas(d, k)
    THEN [d EXCEPT ![DictIndex(d, k)].val = v]
    ELSE Append(d, [key |-> k, val |-> v])

DictDel(d, k) == SelectSeq(d, LAMBDA e : e.key # k)

DictOrder(d) == [n \in 1..Len(d) |-> d[n].key]

\* Plain maps (never iterated): functions with a growing domain.
EmptyMap == [x \in {} |-> 0]

MapPut(m, k, v) == [x \in (DOMAIN m) \cup {k} |-> IF x = k THEN v ELSE m[x]]

MapDel_Kept(m, k) == m

MapDel(m, k) == [x \in (DOMAIN m) \ {k} |-> m[x]]

----------------------------------------------------------------------------
(* Small arithmetic *)

Max(a, b) == IF a >= b THEN a ELSE b

Min(a, b) == IF a <= b THEN a ELSE b

----------------------------------------------------------------------------
(* socket_setup.py: parse_tick_data *)

\* 19800 s (+05:30), in milliseconds.
IstOffsetMs == 19800000

\* token, price = last_traded_price / 100 (rupees; here paise),
\* timestamp = exchange_timestamp / 1000 + 19800 (seconds; here milliseconds).
ParseTickData(message) ==
    [token |-> message.token,
     price |-> message.last_traded_price,
     timestamp |-> message.exchange_timestamp + IstOffsetMs]

----------------------------------------------------------------------------
(* stratagy_maintain.py: pure parts *)

NoDuration == 0

\* timeframe_map of update_dataframes: the pandas frequency of a timeframe,
\* as its length in milliseconds; NoDuration where .get returns None.
TimeframeDuration(timeframe) ==
    CASE timeframe = "1m" -> 60000
      [] timeframe = "3m" -> 180000
      [] timeframe = "5m" -> 300000
      [] timeframe = "15m" -> 900000
      [] timeframe = "30m" -> 1800000
      [] timeframe = "1h" -> 3600000
      [] OTHER -> NoDuration

\* timeframe_map of add_strategy: the vendor's interval name, "None" when absent.
VendorInterval(timeframe) ==
    CASE timeframe = "1m" -> "ONE_MINUTE"
      [] timeframe = "3m" -> "THREE_MINUTE"
      [] timeframe = "5m" -> "FIVE_MINUTE"
      [] timeframe = "15m" -> "FIFTEEN_MINUTE"
      [] timeframe = "30m" -> "THIRTY_MINUTE"
      [] timeframe = "1h" -> "ONE_HOUR"
      [] OTHER -> "None"

\* Timestamp.floor(freq): the start of the bucket the time falls in.
Floor(timestamp, duration) == timestamp - (timestamp % duration)

\* One raw candle of getCandleData: [iso, open, high, low, close]; iso is an
\* ISO string with a six character UTC offset, kept as its two parts.
\* datetime.fromisoformat(candle[0][:-6]) drops the offset and keeps the local time.
ProcessCandle(candle) ==
    [timestamp |-> candle.iso.local,
     open |-> candle.open,
     high |-> candle.high,
     low |-> candle.low,
     close |-> candle.close]

ProcessHistoricalData(candle_data) ==
    IF candle_data = <<>>
    THEN <<>>
    ELSE [n \in 1..Len(candle_data) |-> ProcessCandle(candle_data[n])]

\* fetch_historical_data: the processed candles, or an empty frame when
\* getCandleData (or the processing of what it returned) raises.
FetchHistoricalData(response) ==
    IF response.raises THEN <<>> ELSE ProcessHistoricalData(response.data)

\* Lines 173-175: the tick folded into the last row.
UpdateLastRow_HighIsPrice(df, tick_price) ==
    [df EXCEPT ![Len(df)].high = tick_price,
               ![Len(df)].low = Min(df[Len(df)].low, tick_price),
               ![Len(df)].close = tick_price]

UpdateLastRow_FirstRow(df, tick_price) ==
    [df EXCEPT ![1].high = Max(df[1].high, tick_price),
               ![1].low = Min(df[1].low, tick_price),
               ![1].close = tick_price]

UpdateLastRow(df, tick_price) ==
    [df EXCEPT ![Len(df)].high = Max(df[Len(df)].high, tick_price),
               ![Len(df)].low = Min(df[Len(df)].low, tick_price),
               ![Len(df)].close = tick_price]

\* Lines 173-174: max and min raise TypeError for a last row whose high or
\* low is None.
UpdateLastRowRaises(df) ==
    df[Len(df)].high = Null \/ df[Len(df)].low = Null

\* The frame when lines 173-174 raise: line 173 has written the high when
\* it is line 174 that raises.
UpdateLastRowPartial(df, tick_price) ==
    IF df[Len(df)].high = Null
    THEN df
    ELSE [df EXCEPT ![Len(df)].high = Max(df[Len(df)].high, tick_price)]

\* Lines 178-184: the row a tick opens.
NewRow_Unfloored(timeframe_start, tick_timestamp, tick_price) ==
    [timestamp |-> tick_timestamp,
     open |-> tick_price,
     high |-> tick_price,
     low |-> tick_price,
     close |-> tick_price]

NewRow(timeframe_start, tick_timestamp, tick_price) ==
    [timestamp |-> timeframe_start,
     open |-> tick_price,
     high |-> tick_price,
     low |-> tick_price,
     close |-> tick_price]

\* Line 171: the tick belongs to the last row.
SameBucket(df, timeframe_start) ==
    df # <<>> /\ df[Len(df)].timestamp = timeframe_start

\* Lines 168-187: the frame after the tick, and whether a row was added.
ApplyTick(df, timeframe, tick_timestamp, tick_price) ==
    LET timeframe_start == Floor(tick_timestamp, TimeframeDuration(timeframe))
    IN  IF SameBucket(df, timeframe_start)
        THEN [df |-> UpdateLastRow(df, tick_price), new_row_added |-> FALSE]
        ELSE [df |-> Append(df, NewRow(timeframe_start, tick_timestamp, tick_price)),
              new_row_added |-> TRUE]

\* Lines 171-174: the tick belongs to a last row that makes max or min raise.
ApplyTickRaises(df, timeframe, tick_timestamp) ==
    /\ SameBucket(df, Floor(tick_timestamp, TimeframeDuration(timeframe)))
    /\ UpdateLastRowRaises(df)

\* Line 195: df.iloc[:-1].
DfWithoutLastRow_Whole(df) == df

DfWithoutLastRow(df) == SubSeq(df, 1, Len(df) - 1)

\* Lines 190-191: the key has a registration.
Registered(itm, instrument, timeframe) ==
    instrument \in DOMAIN itm /\ timeframe \in DOMAIN itm[instrument]

\* Lines 117-118 of stop_strategy: the same test.
StopFinds_WrongLevel(itm, instrument, timeframe) ==
    instrument \in DOMAIN itm /\ timeframe \in DOMAIN itm

StopFinds(itm, instrument, timeframe) ==
    instrument \in DOMAIN itm /\ timeframe \in DOMAIN itm[instrument]

\* Lines 122-123 of stop_strategy: the frame of the timeframe is deleted.
StopDataframes_Kept(dfs, instrument, timeframe) == dfs

StopDataframes(dfs, instrument, timeframe) ==
    IF instrument \in DOMAIN dfs /\ DictHas(dfs[instrument], timeframe)
    THEN [dfs EXCEPT ![instrument] = DictDel(@, timeframe)]
    ELSE dfs

\* Lines 103 and 186: self.dataframes[instrument][timeframe] = df.
StoreFrame_EveryInstrument(dfs, instrument, timeframe, df) ==
    [i \in DOMAIN dfs |-> DictPut(dfs[i], timeframe, df)]

StoreFrame_EveryTimeframe(dfs, instrument, timeframe, df) ==
    [dfs EXCEPT ![instrument] = [n \in 1..Len(@) |-> [@[n] EXCEPT !.val = df]]]

StoreFrame(dfs, instrument, timeframe, df) ==
    [dfs EXCEPT ![instrument] = DictPut(@, timeframe, df)]

\* Line 102: the timeframe has no frame yet.
Installs_Always(dfs, instrument, timeframe) == TRUE

Installs(dfs, instrument, timeframe) == ~DictHas(dfs[instrument], timeframe)

\* strategy.py: the names getattr finds in the module.
StrategyModule == {"SuperTrend"}

\* strategy.py, SuperTrend: one of its three returns, or an exception.  The
\* indicator mathematics is not modelled; every outcome is possible.
StrategyOutcomes == {"buy", "sell", "neutral", "raise"}

\* Lines 206-218: the order that is placed, whatever was evaluated.
OrderParams(instrument, result) ==
    [variety |-> "NORMAL",
     tradingsymbol |-> "SBIN-EQ",
     symboltoken |-> "3045",
     transactiontype |-> "BUY",
     exchange |-> "NSE",
     ordertype |-> "MARKET",
     producttype |-> "INTRADAY",
     duration |-> "DAY",
     squareoff |-> "0",
     stoploss |-> "0",
     quantity |-> "10000"]

----------------------------------------------------------------------------
(* State *)

Free == "free"

NoFrame ==
    [instrument |-> "", timestamp |-> 0, price |-> 0,
     todo |-> <<>>,             \* timeframes the for loop has still to visit
     timeframe |-> "",          \* the loop variable
     new_row_added |-> FALSE,
     strategy_name |-> "",
     history |-> <<>>,          \* df_without_last_row
     result |-> "",
     before |-> <<>>,           \* history: the frame of the timeframe before the tick
     dispatched |-> 0]          \* history: dispatches this pass of the loop has started

NoCall ==
    [op |-> "", instrument |-> "", timeframe |-> "", strategy_name |-> "",
     parameters |-> "",
     historical_data |-> <<>>,
     raised |-> FALSE]          \* fetch_historical_data took its except branch

NoRuns == [k \in Keys |-> <<>>]

\* The log: nothing of the program reads it.
ObsOff ==
    [on |-> FALSE,
     received |-> <<>>,                      \* ticks in the order on_data got their messages
     seeds |-> NoRuns,                       \* per key, the frame the log starts from
     taken |-> 0,                            \* ticks of received that a thread has started on
     id |-> [w \in Workers |-> 0],           \* the place in received of the tick a worker carries
     applied |-> <<>>,                       \* places in received, in the order update_dataframes took the lock
     touched |-> [w \in Workers |-> {}],     \* timeframes whose frame the worker's call has updated
     dispatches |-> NoRuns,                  \* per key, the histories the strategy was called with
     failed |-> {},                          \* keys a dispatch of which has failed
     replaced |-> {},                        \* keys whose registration an add has overwritten
     times |-> NoRuns,                       \* per key, the timestamps of the ticks folded into the last candle since a tick opened it
     paths |-> FALSE,                        \* whether exits is kept
     exits |-> {}]                           \* the ways a with self.lock block has been left so far

ObsOn == [ObsOff EXCEPT !.on = TRUE]

ObsPaths == [ObsOff EXCEPT !.paths = TRUE]

\* The key add_strategy is fetching the backfill for, <<>> when it is not.
BackfillKey ==
    IF pc[Main] \in {"add_fetch", "add_store"}
    THEN <<call.instrument, call.timeframe>>
    ELSE <<>>

\* What the log keeps of a message on_data got: the tick it parses to and
\* the backfill that was going on.
Received(message) ==
    [token |-> ParseTickData(message).token,
     price |-> ParseTickData(message).price,
     timestamp |-> ParseTickData(message).timestamp,
     during |-> BackfillKey]

\* Lines 88-90 of socket_setup.py and the head of update_dataframes: the
\* locals of a call for the tick of a message.
TickFrame(message) ==
    [NoFrame EXCEPT !.instrument = ParseTickData(message).token,
                    !.timestamp = ParseTickData(message).timestamp,
                    !.price = ParseTickData(message).price]

\* The log after a step: o when the log is kept.
Log(o) == IF obs.on THEN o ELSE obs

\* The log o after a with self.lock block was left by path.
Exit(o, path) == IF obs.paths THEN [o EXCEPT !.exits = @ \cup {path}] ELSE o

\* The frame of a key, <<>> when the key has none.
Series(dfs, instrument, timeframe) ==
    IF instrument \in DOMAIN dfs /\ DictHas(dfs[instrument], timeframe)
    THEN DictGet(dfs[instrument], timeframe)
    ELSE <<>>

HasSeries(dfs, instrument, timeframe) ==
    instrument \in DOMAIN dfs /\ DictHas(dfs[instrument], timeframe)

InitState(ticks, calls, itm, dfs, o) ==
    /\ instrument_timeframe_map = itm
    /\ dataframes = dfs
    /\ lock = Free
    /\ pc = [t \in Threads |-> "idle"]
    /\ cur = [w \in Workers |-> NoFrame]
    /\ call = NoCall
    /\ placed = <<>>
    /\ ticksLeft = ticks
    /\ callsLeft = calls
    /\ run = NoRuns
    /\ removed = {}
    /\ lost = {}
    /\ obs = o
    /\ queue = <<>>

InitWith(ticks, calls) == InitState(ticks, calls, EmptyMap, EmptyMap, ObsOff)

Init == InitWith(MaxTicks, MaxCalls)

InitConc == InitWith(ConcTicks, ConcCalls)

InitAdd == InitState(AddTicks, AddCalls, EmptyMap, EmptyMap, ObsOn)

InitLock == InitState(LockTicks, LockCalls, EmptyMap, EmptyMap, ObsPaths)

InitCfg == InitState(CfgTicks, CfgCalls, EmptyMap, EmptyMap, ObsOn)

\* The state after add_strategy has returned for every key of the inputs,
\* each instrument with one answer of getCandleData, and before any tick.
Registrations(in) ==
    [i \in in.instruments |->
        [tf \in in.timeframes |->
            [strategy_name |-> CHOOSE n \in in.strategy_names : TRUE,
             parameters |-> CHOOSE q \in Parameters : TRUE]]]

RECURSIVE FramesOf(_, _)
FramesOf(order, df) ==
    IF order = <<>> THEN <<>>
    ELSE <<[key |-> Head(order), val |-> df]>> \o FramesOf(Tail(order), df)

TimeframeOrder(in) ==
    IF "3m" \in in.timeframes THEN <<"1m", "3m">> ELSE <<"1m">>

InitRegistered(ticks, in) ==
    \E answer \in [in.instruments -> in.responses] :
        LET dfs == [i \in in.instruments |->
                       FramesOf(TimeframeOrder(in), FetchHistoricalData(answer[i]))]
        IN  InitState(ticks, 0, Registrations(in), dfs,
                      [ObsOn EXCEPT !.seeds =
                          [k \in Keys |-> Series(dfs, k[1], k[2])]])

InitPar == InitRegistered(ParTicks, ParInputs)

InitPool == InitRegistered(PoolTicks, PoolInputs)

InitBucket == InitRegistered(BucketTicks, BucketInputs)

----------------------------------------------------------------------------
(* Ticks: on_data -> executor -> process_tick -> update_dataframes *)

\* on_data (socket_setup.py line 47) submits process_tick(message) to the
\* executor and returns: the task is in the executor's queue.
OnData(message) ==
    /\ ticksLeft > 0
    /\ ticksLeft' = ticksLeft - 1
    /\ queue' = Append(queue, message)
    /\ obs' = Log([obs EXCEPT !.received = Append(@, Received(message))])
    /\ UNCHANGED <<instrument_timeframe_map, dataframes, lock, pc, cur, call, placed,
                   callsLeft, run, removed, lost>>

\* A free worker takes the oldest task of the queue: process_tick parses the
\* message and calls update_dataframes, where it waits for the lock.
ProcessTick(w) ==
    /\ pc[w] = "idle"
    /\ queue # <<>>
    /\ queue' = Tail(queue)
    /\ cur' = [cur EXCEPT ![w] = TickFrame(Head(queue))]
    /\ pc' = [pc EXCEPT ![w] = "wait"]
    /\ obs' = Log([obs EXCEPT !.taken = @ + 1, !.id[w] = obs.taken + 1])
    /\ UNCHANGED <<instrument_timeframe_map, dataframes, lock, call, placed,
                   ticksLeft, callsLeft, run, removed, lost>>

\* A producer that calls process_tick itself, with no executor in between.
ProducerTick(w, message) ==
    /\ pc[w] = "idle"
    /\ ticksLeft > 0
    /\ ticksLeft' = ticksLeft - 1
    /\ cur' = [cur EXCEPT ![w] = TickFrame(message)]
    /\ pc' = [pc EXCEPT ![w] = "wait"]
    /\ obs' = Log([obs EXCEPT !.received = Append(@, Received(message)),
                              !.taken = @ + 1,
                              !.id[w] = Len(obs.received) + 1])
    /\ UNCHANGED <<instrument_timeframe_map, dataframes, lock, call, placed,
                   callsLeft, run, removed, lost, queue>>

\* Lines 143-146: the lock is taken; an instrument without frames returns at once.
UpdateEnter_ReturnKeepsLock(w) ==
    /\ pc[w] = "wait"
    /\ lock = Free
    /\ IF cur[w].instrument \notin DOMAIN dataframes
       THEN /\ pc' = [pc EXCEPT ![w] = "idle"]
            /\ cur' = [cur EXCEPT ![w] = NoFrame]
            /\ lock' = w
            /\ obs' = Exit(Log([obs EXCEPT !.id[w] = 0]), "early")
       ELSE /\ pc' = [pc EXCEPT ![w] = "loop"]
            /\ cur' = [cur EXCEPT ![w].todo = DictOrder(dataframes[cur[w].instrument])]
            /\ lock' = w
            /\ obs' = Log([obs EXCEPT !.applied = Append(@, obs.id[w])])
    /\ UNCHANGED <<instrument_timeframe_map, dataframes, call, placed,
                   ticksLeft, callsLeft, run, removed, lost, queue>>

UpdateEnter(w) ==
    /\ pc[w] = "wait"
    /\ lock = Free
    /\ IF cur[w].instrument \notin DOMAIN dataframes
       THEN /\ pc' = [pc EXCEPT ![w] = "idle"]
            /\ cur' = [cur EXCEPT ![w] = NoFrame]
            /\ lock' = Free
            /\ obs' = Exit(Log([obs EXCEPT !.id[w] = 0]), "early")
       ELSE /\ pc' = [pc EXCEPT ![w] = "loop"]
            /\ cur' = [cur EXCEPT ![w].todo = DictOrder(dataframes[cur[w].instrument])]
            /\ lock' = w
            /\ obs' = Log([obs EXCEPT !.applied = Append(@, obs.id[w])])
    /\ UNCHANGED <<instrument_timeframe_map, dataframes, call, placed,
                   ticksLeft, callsLeft, run, removed, lost, queue>>

\* Lines 161-195: one pass of the for loop, up to the call of the strategy.
UpdateStep(w) ==
    /\ pc[w] = "loop"
    /\ cur[w].todo # <<>>
    /\ LET instrument == cur[w].instrument
           timeframe == Head(cur[w].todo)
           df == DictGet(dataframes[instrument], timeframe)
       IN  IF TimeframeDuration(timeframe) = NoDuration
           THEN /\ cur' = [cur EXCEPT ![w].todo = Tail(@)]
                /\ UNCHANGED <<dataframes, pc, run, obs, queue>>
           ELSE LET r == ApplyTick(df, timeframe, cur[w].timestamp, cur[w].price)
                    dispatch == r.new_row_added
                                /\ Registered(instrument_timeframe_map, instrument, timeframe)
                    k == <<instrument, timeframe>>
                IN  /\ ~ApplyTickRaises(df, timeframe, cur[w].timestamp)
                    /\ dataframes' = StoreFrame(dataframes, instrument, timeframe, r.df)
                    /\ cur' = [cur EXCEPT ![w] =
                                 [@ EXCEPT !.todo = Tail(cur[w].todo),
                                           !.timeframe = timeframe,
                                           !.new_row_added = r.new_row_added,
                                           !.strategy_name =
                                               IF dispatch
                                               THEN instrument_timeframe_map[instrument][timeframe].strategy_name
                                               ELSE "",
                                           !.history =
                                               IF dispatch THEN DfWithoutLastRow(r.df) ELSE <<>>,
                                           !.result = "",
                                           !.before = df,
                                           !.dispatched = IF dispatch THEN 1 ELSE 0]]
                    /\ pc' = [pc EXCEPT ![w] = IF dispatch THEN "strategy" ELSE "loop"]
                    /\ run' = [run EXCEPT ![k] =
                                 IF r.new_row_added THEN <<cur[w].price>>
                                 ELSE IF @ # <<>> THEN Append(@, cur[w].price)
                                 ELSE <<>>]
                    /\ obs' = Log([obs EXCEPT
                                     !.touched[w] = @ \cup {timeframe},
                                     !.times[k] =
                                         IF r.new_row_added THEN <<cur[w].timestamp>>
                                         ELSE IF @ # <<>> THEN Append(@, cur[w].timestamp)
                                         ELSE <<>>,
                                     !.dispatches[k] =
                                         IF dispatch
                                         THEN Append(@, DfWithoutLastRow(r.df))
                                         ELSE @])
    /\ UNCHANGED <<instrument_timeframe_map, lock, call, placed,
                   ticksLeft, callsLeft, removed, lost, queue>>

\* Lines 173-174 raise TypeError: the exception leaves the for loop and the
\* with block, which releases the lock, and update_dataframes; process_tick
\* catches it (socket_setup.py lines 92-93) and the task ends.
UpdateRaises(w) ==
    /\ pc[w] = "loop"
    /\ cur[w].todo # <<>>
    /\ LET instrument == cur[w].instrument
           timeframe == Head(cur[w].todo)
           df == DictGet(dataframes[instrument], timeframe)
       IN  /\ TimeframeDuration(timeframe) # NoDuration
           /\ ApplyTickRaises(df, timeframe, cur[w].timestamp)
           /\ dataframes' = StoreFrame(dataframes, instrument, timeframe,
                                       UpdateLastRowPartial(df, cur[w].price))
    /\ lock' = Free
    /\ pc' = [pc EXCEPT ![w] = "idle"]
    /\ cur' = [cur EXCEPT ![w] = NoFrame]
    /\ obs' = Exit(Log([obs EXCEPT !.id[w] = 0, !.touched[w] = {}]), "uncaught")
    /\ UNCHANGED <<instrument_timeframe_map, call, placed,
                   ticksLeft, callsLeft, run, removed, lost, queue>>

\* Lines 197-205 and 221-226: the strategy is looked up and evaluated; a name
\* the module does not have, or an exception of the strategy, goes to the
\* except clauses.
UpdateStrategy_EndsLoop(w, outcome) ==
    /\ pc[w] = "strategy"
    /\ IF cur[w].strategy_name \notin StrategyModule \/ outcome = "raise"
       THEN /\ pc' = [pc EXCEPT ![w] = "except"]
            /\ cur' = [cur EXCEPT ![w].strategy_name = "", ![w].history = <<>>,
                                  ![w].todo = <<>>]
            /\ obs' = Log([obs EXCEPT !.failed =
                                         @ \cup {<<cur[w].instrument, cur[w].timeframe>>}])
       ELSE /\ pc' = [pc EXCEPT ![w] = "order"]
            /\ cur' = [cur EXCEPT ![w].result = outcome]
            /\ obs' = obs
    /\ UNCHANGED <<instrument_timeframe_map, dataframes, lock, call, placed,
                   ticksLeft, callsLeft, run, removed, lost, queue>>

UpdateStrategy(w, outcome) ==
    /\ pc[w] = "strategy"
    /\ IF cur[w].strategy_name \notin StrategyModule \/ outcome = "raise"
       THEN /\ pc' = [pc EXCEPT ![w] = "except"]
            /\ cur' = [cur EXCEPT ![w].strategy_name = "", ![w].history = <<>>]
            /\ obs' = Log([obs EXCEPT !.failed =
                                         @ \cup {<<cur[w].instrument, cur[w].timeframe>>}])
       ELSE /\ pc' = [pc EXCEPT ![w] = "order"]
            /\ cur' = [cur EXCEPT ![w].result = outcome]
            /\ obs' = obs
    /\ UNCHANGED <<instrument_timeframe_map, dataframes, lock, call, placed,
                   ticksLeft, callsLeft, run, removed, lost, queue>>

\* Lines 206-220: the order is placed.
UpdateOrder(w) ==
    /\ pc[w] = "order"
    /\ placed' = <<OrderParams(cur[w].instrument, cur[w].result)>>
    /\ pc' = [pc EXCEPT ![w] = "loop"]
    /\ cur' = [cur EXCEPT ![w].strategy_name = "", ![w].history = <<>>,
                          ![w].result = ""]
    /\ UNCHANGED <<instrument_timeframe_map, dataframes, lock, call,
                   ticksLeft, callsLeft, run, removed, lost, obs, queue>>

\* Lines 220 and 225: placeOrder raises, which goes to the except clauses.
UpdateOrderRaises(w) ==
    /\ pc[w] = "order"
    /\ pc' = [pc EXCEPT ![w] = "except"]
    /\ cur' = [cur EXCEPT ![w].strategy_name = "", ![w].history = <<>>,
                          ![w].result = ""]
    /\ obs' = Log([obs EXCEPT !.failed =
                                 @ \cup {<<cur[w].instrument, cur[w].timeframe>>}])
    /\ UNCHANGED <<instrument_timeframe_map, dataframes, lock, call, placed,
                   ticksLeft, callsLeft, run, removed, lost, queue>>

\* Lines 221-226: the except clause prints the error and the pass ends.
UpdateExcept(w) ==
    /\ pc[w] = "except"
    /\ pc' = [pc EXCEPT ![w] = "loop"]
    /\ obs' = Exit(obs, "caught")
    /\ UNCHANGED <<instrument_timeframe_map, dataframes, lock, cur, call, placed,
                   ticksLeft, callsLeft, run, removed, lost, queue>>

\* The for loop is over: the with block releases the lock.
UpdateReturn(w) ==
    /\ pc[w] = "loop"
    /\ cur[w].todo = <<>>
    /\ lock' = Free
    /\ pc' = [pc EXCEPT ![w] = "idle"]
    /\ cur' = [cur EXCEPT ![w] = NoFrame]
    /\ obs' = Exit(Log([obs EXCEPT !.id[w] = 0, !.touched[w] = {}]), "return")
    /\ UNCHANGED <<instrument_timeframe_map, dataframes, call, placed,
                   ticksLeft, callsLeft, run, removed, lost, queue>>

----------------------------------------------------------------------------
(* Control calls of main (mai.py lines 53, 57, 61, 65) *)

AddCall(instrument, timeframe, strategy_name, parameters) ==
    /\ pc[Main] = "idle"
    /\ callsLeft > 0
    /\ call' = [NoCall EXCEPT !.op = "add",
                              !.instrument = instrument,
                              !.timeframe = timeframe,
                              !.strategy_name = strategy_name,
                              !.parameters = parameters]
    /\ pc' = [pc EXCEPT ![Main] = "add_wait"]
    /\ callsLeft' = callsLeft - 1
    /\ UNCHANGED <<instrument_timeframe_map, dataframes, lock, cur, placed,
                   ticksLeft, run, removed, lost, obs, queue>>

\* Lines 68-95: the lock is taken and the instrument's two dictionaries are
\* created when the instrument has no registrations dictionary.  Lines 75-78:
\* an empty instrument returns at once, which releases the lock.
AddEnter_FetchUnlocked ==
    /\ pc[Main] = "add_wait"
    /\ lock = Free
    /\ lock' = Free
    /\ IF call.instrument \notin DOMAIN instrument_timeframe_map
       THEN /\ instrument_timeframe_map' =
                   MapPut(instrument_timeframe_map, call.instrument, EmptyMap)
            /\ dataframes' = MapPut(dataframes, call.instrument, <<>>)
       ELSE UNCHANGED <<instrument_timeframe_map, dataframes>>
    /\ IF call.instrument = ""
       THEN /\ call' = NoCall
            /\ pc' = [pc EXCEPT ![Main] = "idle"]
            /\ obs' = Exit(obs, "early")
       ELSE /\ call' = call
            /\ pc' = [pc EXCEPT ![Main] = "add_fetch"]
            /\ obs' = obs
    /\ UNCHANGED <<cur, placed, ticksLeft, callsLeft, run, removed, lost, queue>>

AddEnter ==
    /\ pc[Main] = "add_wait"
    /\ lock = Free
    /\ IF call.instrument \notin DOMAIN instrument_timeframe_map
       THEN /\ instrument_timeframe_map' =
                   MapPut(instrument_timeframe_map, call.instrument, EmptyMap)
            /\ dataframes' = MapPut(dataframes, call.instrument, <<>>)
       ELSE UNCHANGED <<instrument_timeframe_map, dataframes>>
    /\ IF call.instrument = ""
       THEN /\ lock' = Free
            /\ call' = NoCall
            /\ pc' = [pc EXCEPT ![Main] = "idle"]
            /\ obs' = Exit(obs, "early")
       ELSE /\ lock' = Main
            /\ call' = call
            /\ pc' = [pc EXCEPT ![Main] = "add_fetch"]
            /\ obs' = obs
    /\ UNCHANGED <<cur, placed, ticksLeft, callsLeft, run, removed, lost, queue>>

\* Lines 97-99: getCandleData answers while the lock is held.
AddFetch_RaiseEndsAdd(response) ==
    /\ pc[Main] = "add_fetch"
    /\ IF response.raises
       THEN /\ call' = NoCall
            /\ lock' = Free
            /\ pc' = [pc EXCEPT ![Main] = "idle"]
       ELSE /\ call' = [call EXCEPT !.historical_data = FetchHistoricalData(response),
                                    !.raised = response.raises]
            /\ lock' = lock
            /\ pc' = [pc EXCEPT ![Main] = "add_store"]
    /\ obs' = IF response.raises THEN Exit(obs, "caught") ELSE obs
    /\ UNCHANGED <<instrument_timeframe_map, dataframes, cur, placed,
                   ticksLeft, callsLeft, run, removed, lost, queue>>

AddFetch(response) ==
    /\ pc[Main] = "add_fetch"
    /\ call' = [call EXCEPT !.historical_data = FetchHistoricalData(response),
                            !.raised = response.raises]
    /\ pc' = [pc EXCEPT ![Main] = "add_store"]
    /\ obs' = IF response.raises THEN Exit(obs, "caught") ELSE obs
    /\ UNCHANGED <<instrument_timeframe_map, dataframes, lock, cur, placed,
                   ticksLeft, callsLeft, run, removed, lost, queue>>

\* Lines 102-107: the history becomes the frame of a timeframe that has none,
\* the registration is stored, the lock is released.
AddStore ==
    /\ pc[Main] = "add_store"
    /\ LET instrument == call.instrument
           timeframe == call.timeframe
           k == <<instrument, timeframe>>
           installs == Installs(dataframes, instrument, timeframe)
       IN  /\ dataframes' =
                  IF installs
                  THEN StoreFrame(dataframes, instrument, timeframe, call.historical_data)
                  ELSE dataframes
           /\ instrument_timeframe_map' =
                  [instrument_timeframe_map EXCEPT ![instrument] =
                      MapPut(@, timeframe,
                             [strategy_name |-> call.strategy_name,
                              parameters |-> call.parameters])]
           /\ run' = IF installs THEN [run EXCEPT ![k] = <<>>] ELSE run
           /\ removed' = removed \ {k}
           /\ obs' = Exit(Log([obs EXCEPT !.replaced =
                                             IF Registered(instrument_timeframe_map,
                                                           instrument, timeframe)
                                             THEN @ \cup {k} ELSE @]), "return")
    /\ call' = NoCall
    /\ lock' = Free
    /\ pc' = [pc EXCEPT ![Main] = "idle"]
    /\ UNCHANGED <<cur, placed, ticksLeft, callsLeft, lost, queue>>

StopCall(instrument, timeframe) ==
    /\ pc[Main] = "idle"
    /\ callsLeft > 0
    /\ call' = [NoCall EXCEPT !.op = "stop",
                              !.instrument = instrument,
                              !.timeframe = timeframe]
    /\ pc' = [pc EXCEPT ![Main] = "stop_wait"]
    /\ callsLeft' = callsLeft - 1
    /\ UNCHANGED <<instrument_timeframe_map, dataframes, lock, cur, placed,
                   ticksLeft, run, removed, lost, obs, queue>>

\* Lines 116-125: under the lock, the registration of the key and its frame
\* are deleted when the key is registered.
StopRun ==
    /\ pc[Main] = "stop_wait"
    /\ lock = Free
    /\ LET instrument == call.instrument
           timeframe == call.timeframe
           k == <<instrument, timeframe>>
           found == StopFinds(instrument_timeframe_map, instrument, timeframe)
           dfs == IF found THEN StopDataframes(dataframes, instrument, timeframe)
                  ELSE dataframes
       IN  /\ instrument_timeframe_map' =
                  IF found
                  THEN [instrument_timeframe_map EXCEPT ![instrument] =
                           MapDel(@, timeframe)]
                  ELSE instrument_timeframe_map
           /\ dataframes' = dfs
           /\ removed' = removed \cup {k}
           /\ lost' = IF run[k] # <<>> /\ ~HasSeries(dfs, instrument, timeframe)
                      THEN lost \cup {k}
                      ELSE lost \ {k}
           /\ run' = IF HasSeries(dfs, instrument, timeframe) THEN run
                     ELSE [run EXCEPT ![k] = <<>>]
    /\ call' = NoCall
    /\ lock' = Free
    /\ pc' = [pc EXCEPT ![Main] = "idle"]
    /\ obs' = Exit(obs, "return")
    /\ UNCHANGED <<cur, placed, ticksLeft, callsLeft, queue>>

StopAllCall ==
    /\ pc[Main] = "idle"
    /\ callsLeft > 0
    /\ call' = [NoCall EXCEPT !.op = "stop_all"]
    /\ pc' = [pc EXCEPT ![Main] = "stop_all_wait"]
    /\ callsLeft' = callsLeft - 1
    /\ UNCHANGED <<instrument_timeframe_map, dataframes, lock, cur, placed,
                   ticksLeft, run, removed, lost, obs, queue>>

\* Lines 131-134: under the lock, both dictionaries are cleared.
StopAllRun ==
    /\ pc[Main] = "stop_all_wait"
    /\ lock = Free
    /\ instrument_timeframe_map' = EmptyMap
    /\ dataframes' = EmptyMap
    /\ removed' = Keys
    /\ lost' = {k \in Keys : run[k] # <<>>}
    /\ run' = NoRuns
    /\ call' = NoCall
    /\ lock' = Free
    /\ pc' = [pc EXCEPT ![Main] = "idle"]
    /\ obs' = Exit(obs, "return")
    /\ UNCHANGED <<cur, placed, ticksLeft, callsLeft, queue>>

----------------------------------------------------------------------------

\* update_dataframes, from the with self.lock line to its return.
CallSteps(in) ==
    \/ \E w \in in.workers : UpdateEnter(w)
    \/ \E w \in in.workers : UpdateStep(w)
    \/ \E w \in in.workers, outcome \in StrategyOutcomes : UpdateStrategy(w, outcome)
    \/ \E w \in in.workers : UpdateOrder(w)
    \/ \E w \in in.workers : UpdateOrderRaises(w)
    \/ \E w \in in.workers : UpdateExcept(w)
    \/ \E w \in in.workers : UpdateReturn(w)

\* What a pool worker does: take a task, then the call.
WorkerStep(in) ==
    \/ \E w \in in.workers : ProcessTick(w)
    \/ CallSteps(in)

\* add_strategy as main calls it.
AddSteps(in) ==
    \/ \E instrument \in in.instruments, timeframe \in in.timeframes,
          strategy_name \in in.strategy_names, parameters \in Parameters :
            AddCall(instrument, timeframe, strategy_name, parameters)
    \/ AddEnter
    \/ \E response \in in.responses : AddFetch(response)
    \/ AddStore

Step(in) ==
    \/ \E message \in Messages(in) : OnData(message)
    \/ WorkerStep(in)
    \/ AddSteps(in)
    \/ \E instrument \in in.instruments, timeframe \in in.timeframes :
            StopCall(instrument, timeframe)
    \/ StopRun
    \/ StopAllCall
    \/ StopAllRun

Next == Step(SeqInputs)

\* The feed runs while main registers strategies of every kind and removes
\* none.
NextCfg ==
    \/ \E message \in Messages(CfgInputs) : OnData(message)
    \/ WorkerStep(CfgInputs)
    \/ AddSteps(CfgInputs)

\* The feed and the stops name the instrument that has a token; add_strategy
\* is also called with the empty one.
LockFeed == [LockInputs EXCEPT !.instruments = {"3045"}]

NextLock ==
    \/ \E message \in Messages(LockFeed) : OnData(message)
    \/ WorkerStep(LockInputs)
    \/ \E w \in LockInputs.workers : UpdateRaises(w)
    \/ AddSteps(LockInputs)
    \/ \E instrument \in LockFeed.instruments, timeframe \in LockFeed.timeframes :
            StopCall(instrument, timeframe)
    \/ StopRun
    \/ StopAllCall
    \/ StopAllRun

\* on_data submits every message to the executor; any free worker takes it.
NextPool ==
    \/ \E message \in Messages(PoolInputs) : OnData(message)
    \/ WorkerStep(PoolInputs)

\* The feed of a registered instrument, several ticks to a bucket.
NextBucket ==
    \/ \E message \in Messages(BucketInputs) : OnData(message)
    \/ WorkerStep(BucketInputs)

\* The feed runs while main registers strategies and removes none.
NextAdd ==
    \/ \E message \in Messages(AddInputs) : OnData(message)
    \/ WorkerStep(AddInputs)
    \/ AddSteps(AddInputs)

\* The instrument whose ticks a producer delivers.
Producer(w) == IF w = "w1" THEN "3045" ELSE "99926000"

\* Two producers, each calling update_dataframes with the ticks of its own
\* instrument, one call after the other.
NextPar ==
    \/ \E w \in ParInputs.workers, message \in Messages(ParInputs) :
            message.token = Producer(w) /\ ProducerTick(w, message)
    \/ CallSteps(ParInputs)

NextConc == Step(ConcInputs)

\* One producer.
Spec == Init /\ [][Next]_vars

\* Three pool workers and main.
SpecConc == InitConc /\ [][NextConc]_vars

\* The ticks of one registered instrument, through the three pool workers.
SpecPool == InitPool /\ [][NextPool]_vars

\* What worker w does next while it holds the lock, up to leaving the with
\* block: exactly one of these is possible at each of its positions.
HolderStep(w) ==
    \/ UpdateStep(w)
    \/ UpdateRaises(w)
    \/ \E outcome \in StrategyOutcomes : UpdateStrategy(w, outcome)
    \/ UpdateOrder(w) \/ UpdateOrderRaises(w)
    \/ UpdateExcept(w)
    \/ UpdateReturn(w)

\* One producer on registered keys, several ticks to a bucket.
SpecBucket == InitBucket /\ [][NextBucket]_vars

\* Every exit path of the four methods.
SpecLock == InitLock /\ [][NextLock]_vars

\* The calls made under the lock return and a thread that holds the lock goes
\* on; a thread that waits for the lock gets it when it is free again and
\* again.
SpecLockFair ==
    /\ SpecLock
    /\ \A w \in Workers :
          /\ SF_vars(UpdateEnter(w))
          /\ WF_vars(HolderStep(w))
    /\ SF_vars(AddEnter \/ StopRun \/ StopAllRun)
    /\ WF_vars((\E response \in LockInputs.responses : AddFetch(response)) \/ AddStore)

\* The pool while main adds strategies.
SpecAdd == InitAdd /\ [][NextAdd]_vars

\* One producer while main adds registrations of every kind.
SpecCfg == InitCfg /\ [][NextCfg]_vars

\* One producer per instrument on registered keys, no control calls.
SpecPar == InitPar /\ [][NextPar]_vars

\* Three pool workers and main; a strategy call and a placeOrder call that were made return,
\* and the thread that made them under the lock goes on.
SpecConcFair ==
    SpecConc /\ \A w \in Workers :
        WF_vars(\E outcome \in StrategyOutcomes : UpdateStrategy(w, outcome))
        /\ WF_vars(UpdateOrder(w))
        /\ WF_vars(UpdateExcept(w))

----------------------------------------------------------------------------
(* Vocabulary of the properties *)

\* The worker holds the lock inside update_dataframes and has applied its
\* tick to the frame of cur[w].timeframe.
InPass(w) == pc[w] \in {"loop", "strategy", "order", "except"} /\ cur[w].timeframe # ""

\* The bucket of the worker's tick in the timeframe of its pass.
TickBucket(w) == Floor(cur[w].timestamp, TimeframeDuration(cur[w].timeframe))

\* The frame of the key of the worker's pass, as it is now.
PassSeries(w) == Series(dataframes, cur[w].instrument, cur[w].timeframe)

LastOf(df) == df[Len(df)]

\* The tick of the pass fell before, or after, the bucket of the open candle.
LateTick(w) ==
    InPass(w) /\ cur[w].before # <<>> /\ TickBucket(w) < LastOf(cur[w].before).timestamp

LaterTick(w) ==
    InPass(w) /\ cur[w].before # <<>> /\ TickBucket(w) > LastOf(cur[w].before).timestamp

RECURSIVE MaxOf(_)
MaxOf(prices) ==
    IF Len(prices) = 1 THEN prices[1] ELSE Max(prices[1], MaxOf(Tail(prices)))

RECURSIVE MinOf(_)
MinOf(prices) ==
    IF Len(prices) = 1 THEN prices[1] ELSE Min(prices[1], MinOf(Tail(prices)))

\* The buckets a frame can get from a tick of the feed or from the seed.
FeedBuckets(timeframe) ==
    {Floor(ParseTickData(m).timestamp, TimeframeDuration(timeframe)) :
        m \in Messages(SeqInputs)}

SeedBuckets ==
    UNION {{c.timestamp : c \in {FetchHistoricalData(r)[n] :
                                    n \in 1..Len(FetchHistoricalData(r))}} :
           r \in Responses}

Direction(result) == IF result = "buy" THEN "BUY" ELSE "SELL"

----------------------------------------------------------------------------
(* C1: a tick whose bucket lies before the bucket of the open candle is     *)
(* dropped: the series is left as it was, no candle is appended and no      *)
(* strategy is dispatched.                                                  *)
C1_LateTickDropped ==
    \A w \in Workers :
        LateTick(w) =>
            /\ PassSeries(w) = cur[w].before
            /\ ~cur[w].new_row_added
            /\ cur[w].dispatched = 0

(* C2: in every reachable state the candles of every series are strictly   *)
(* increasing in bucket start, and every bucket present is one a tick of    *)
(* the feed or the backfill seed falls in.                                  *)
C2_StrictlyIncreasingBuckets ==
    \A k \in Keys :
        LET df == Series(dataframes, k[1], k[2])
        IN  /\ \A n \in 1..(Len(df) - 1) : df[n].timestamp < df[n + 1].timestamp
            /\ \A n \in 1..Len(df) :
                   df[n].timestamp \in FeedBuckets(k[2]) \cup SeedBuckets

(* C3: placeOrder is reached only with a strategy result of "buy" or        *)
(* "sell"; a "neutral" result places no order.                              *)
C3_OrderOnlyForSignal ==
    \A w \in Workers : pc[w] = "order" => cur[w].result \in {"buy", "sell"}

(* C4: the order placed for a signal names the instrument of the series     *)
(* whose candle closed and has the direction of the signal.                 *)
C4_OrderMatchesSignal ==
    \A w \in Workers :
        pc[w] = "order" /\ cur[w].result \in {"buy", "sell"} =>
            LET orderparams == OrderParams(cur[w].instrument, cur[w].result)
            IN  /\ orderparams.symboltoken = cur[w].instrument
                /\ orderparams.transactiontype = Direction(cur[w].result)

(* C5: the history a strategy is called with is the series as it was        *)
(* before the tick opened the new candle: the series now is that history    *)
(* followed by the one candle that is forming.                              *)
C5_HistoryExcludesOpenCandle ==
    \A w \in Workers :
        pc[w] = "strategy" =>
            /\ cur[w].history = cur[w].before
            /\ Len(PassSeries(w)) = Len(cur[w].history) + 1
            /\ SubSeq(PassSeries(w), 1, Len(cur[w].history)) = cur[w].history

\* The strategy is called after a candle that a tick had widened has closed.
C5_Witness ==
    \E w \in Workers :
        /\ pc[w] = "strategy"
        /\ cur[w].before # <<>>
        /\ LastOf(cur[w].before).high > LastOf(cur[w].before).low

(* C6: while ticks of one bucket follow the tick that opened the candle,    *)
(* the open candle has open = first price, high = largest price, low =      *)
(* smallest price, close = last price, and only the opening tick of the     *)
(* bucket can have a dispatch in progress.                                  *)
C6_CandleOfOneBucket ==
    /\ \A k \in Keys :
           run[k] # <<>> =>
               LET df == Series(dataframes, k[1], k[2])
               IN  /\ df # <<>>
                   /\ LastOf(df).open = run[k][1]
                   /\ LastOf(df).high = MaxOf(run[k])
                   /\ LastOf(df).low = MinOf(run[k])
                   /\ LastOf(df).close = LastOf(run[k])
    /\ \A w \in Workers :
           InPass(w) /\ Len(run[<<cur[w].instrument, cur[w].timeframe>>]) >= 2 =>
               cur[w].dispatched = 0 /\ pc[w] = "loop"

\* The timestamps of the ticks of a run, each later than the one before.
StrictlyIncreasing(times) ==
    \A n \in 1..(Len(times) - 1) : times[n] < times[n + 1]

\* Three ticks with strictly increasing timestamps fell in one bucket, the
\* first opened the candle, the second went above it and the third came
\* back below: the high is neither the open nor the close.
C6_Witness ==
    \E k \in Keys :
        /\ Len(run[k]) = 3
        /\ Len(obs.times[k]) = 3
        /\ StrictlyIncreasing(obs.times[k])
        /\ TimeframeDuration(k[2]) # NoDuration
        /\ \A n \in 1..3 :
              Floor(obs.times[k][n], TimeframeDuration(k[2]))
                  = LastOf(Series(dataframes, k[1], k[2])).timestamp
        /\ run[k][2] > run[k][1] /\ run[k][2] > run[k][3]
        /\ LastOf(Series(dataframes, k[1], k[2])).open = run[k][1]
        /\ LastOf(Series(dataframes, k[1], k[2])).high = run[k][2]
        /\ LastOf(Series(dataframes, k[1], k[2])).close = run[k][3]

(* C7: for a registered series, a tick whose bucket lies after the bucket   *)
(* of the open candle starts exactly one dispatch and appends exactly one   *)
(* candle, at the bucket of the tick, with open = high = low = close = the  *)
(* price of the tick; nothing is inserted for the buckets in between.       *)
C7_RolloverOnce ==
    \A w \in Workers :
        LaterTick(w)
        /\ Registered(instrument_timeframe_map, cur[w].instrument, cur[w].timeframe) =>
            /\ PassSeries(w) =
                   Append(cur[w].before,
                          [timestamp |-> TickBucket(w),
                           open |-> cur[w].price, high |-> cur[w].price,
                           low |-> cur[w].price, close |-> cur[w].price])
            /\ cur[w].new_row_added
            /\ cur[w].dispatched = 1

\* The rollover skipped at least one empty bucket.
C7_Witness ==
    \E w \in Workers :
        /\ LaterTick(w)
        /\ Registered(instrument_timeframe_map, cur[w].instrument, cur[w].timeframe)
        /\ TickBucket(w) > LastOf(cur[w].before).timestamp
                              + TimeframeDuration(cur[w].timeframe)
        /\ cur[w].dispatched = 1
        /\ pc[w] = "loop"

(* C8: a candle that is not the last one of its series is never changed by  *)
(* a step that keeps the series: only stop_strategy and stop_all_strategies *)
(* make it disappear, with its series.                                      *)
ClosedCandlesKept ==
    \A k \in Keys :
        HasSeries(dataframes, k[1], k[2]) /\ HasSeries(dataframes', k[1], k[2]) =>
            LET df == Series(dataframes, k[1], k[2])
                df2 == Series(dataframes', k[1], k[2])
            IN  \A n \in 1..(Len(df) - 1) : n <= Len(df2) /\ df2[n] = df[n]

C8_ClosedCandleImmutable == [][ClosedCandlesKept]_vars

\* A tick was folded into the last candle of a series that has a closed one.
C8_Witness ==
    \E w \in Workers :
        /\ InPass(w)
        /\ Len(cur[w].before) >= 2
        /\ ~cur[w].new_row_added
        /\ PassSeries(w) # cur[w].before

(* C9: when add_strategy stores a key whose stop had returned, the series   *)
(* of the key is exactly what this call's backfill returned.                *)
ReAddIsFresh ==
    LET k == <<call.instrument, call.timeframe>>
    IN  pc[Main] = "add_store" /\ pc'[Main] = "idle" /\ k \in removed =>
            /\ HasSeries(dataframes', k[1], k[2])
            /\ Series(dataframes', k[1], k[2]) = call.historical_data

C9_FreshHistoryAfterReAdd == [][ReAddIsFresh]_vars

\* A key that lost tick-built candles at its removal is registered again.
C9_Witness ==
    \E k \in lost :
        /\ k \notin removed
        /\ Registered(instrument_timeframe_map, k[1], k[2])
        /\ HasSeries(dataframes, k[1], k[2])
        /\ pc[Main] = "idle"

(* C10: with ticks ingested concurrently, no dispatch starts for a key      *)
(* whose stop (or stop of all) has returned until the key is added again,   *)
(* and a dispatch in progress is not cut short: while it runs no            *)
(* registration changes, its worker only moves on by its own steps, and     *)
(* it gets back to the loop of update_dataframes.                           *)
NoDispatchAfterStop ==
    \A w \in Workers :
        /\ pc[w] # "strategy" /\ pc'[w] = "strategy" =>
               <<cur'[w].instrument, cur'[w].timeframe>> \notin removed
        /\ pc[w] \in {"strategy", "order", "except"} =>
               /\ instrument_timeframe_map' = instrument_timeframe_map
               /\ removed' = removed
               /\ pc'[w] \in {"strategy", "order", "except", "loop"}
               /\ cur'[w].instrument = cur[w].instrument
               /\ cur'[w].timeframe = cur[w].timeframe

C10_NoDispatchAfterStop ==
    /\ [][NoDispatchAfterStop]_vars
    /\ \A w \in Workers : (pc[w] \in {"strategy", "order", "except"}) ~> (pc[w] = "loop")

\* A tick is being ingested for an instrument whose key was stopped.
C10_Witness ==
    \E w \in Workers, k \in removed :
        /\ pc[w] = "loop"
        /\ cur[w].instrument = k[1]
        /\ pc[Main] = "add_wait"
        /\ call.instrument = k[1] /\ call.timeframe = k[2]
        /\ \E v \in Workers : pc[v] = "wait"

----------------------------------------------------------------------------
\* The instrument the holder of the lock works for: the tick's of a worker,
\* the call's of main ("" when the call names none).
HolderInstrument ==
    IF lock \in Workers THEN cur[lock].instrument ELSE call.instrument

\* Threads inside a block guarded by the lock.
InsideLock ==
    {w \in Workers : pc[w] \in {"loop", "strategy", "order", "except"}}
        \cup (IF pc[Main] \in {"add_fetch", "add_store"} THEN {Main} ELSE {})

(* C11: writers of one series exclude each other, and update_dataframes     *)
(* for an instrument never waits while the update of a candle, a strategy   *)
(* call, an order or the backfill of an add for another instrument only is  *)
(* in progress.                                                             *)
C11_NoWaitAcrossInstruments ==
    /\ Cardinality(InsideLock) <= 1
    /\ \A w \in Workers :
          (pc[w] = "wait" /\ lock # Free) => HolderInstrument = cur[w].instrument

\* The ticks of an instrument in the order on_data got them.
TicksOf(instrument) == SelectSeq(obs.received, LAMBDA t : t.token = instrument)

\* One producer alone: the frame after its ticks, one after the other.
RECURSIVE SeqApply(_, _, _)
SeqApply(df, timeframe, ticks) ==
    IF ticks = <<>> THEN df
    ELSE SeqApply(ApplyTick(df, timeframe, Head(ticks).timestamp, Head(ticks).price).df,
                  timeframe, Tail(ticks))

\* One producer alone: the histories its dispatches are called with, each the
\* frame as it was before the tick that added a row.
RECURSIVE SeqDispatches(_, _, _)
SeqDispatches(df, timeframe, ticks) ==
    IF ticks = <<>> THEN <<>>
    ELSE LET r == ApplyTick(df, timeframe, Head(ticks).timestamp, Head(ticks).price)
         IN  (IF r.new_row_added THEN <<df>> ELSE <<>>)
                 \o SeqDispatches(r.df, timeframe, Tail(ticks))

(* C12: with one producer per instrument, whatever the interleaving, when   *)
(* a producer is between two calls every series of its instrument and the   *)
(* sequence of histories dispatched for it are those of the producer        *)
(* running alone on the ticks it has delivered.                             *)
C12_InterleavingLikeSequential ==
    \A w \in ParInputs.workers :
        pc[w] = "idle" =>
            \A tf \in ParInputs.timeframes :
                LET k == <<Producer(w), tf>>
                IN  /\ Series(dataframes, k[1], k[2])
                          = SeqApply(obs.seeds[k], tf, TicksOf(k[1]))
                    /\ obs.dispatches[k]
                          = SeqDispatches(obs.seeds[k], tf, TicksOf(k[1]))

\* Both producers have finished; the second tick received took the lock
\* before the first, and both instruments had dispatches.
C12_Witness ==
    /\ \A w \in ParInputs.workers : pc[w] = "idle"
    /\ ticksLeft = 0
    /\ Len(obs.applied) = ParTicks
    /\ obs.applied[1] = 2
    /\ \A i \in ParInputs.instruments : obs.dispatches[<<i, "1m">>] # <<>>
    /\ \E i \in ParInputs.instruments : Len(obs.dispatches[<<i, "3m">>]) = 2

----------------------------------------------------------------------------
\* The timeframe is one timeframe_map has.
Supported(timeframe) == TimeframeDuration(timeframe) # NoDuration

(* C13: add_strategy with a timeframe outside the supported set leaves no   *)
(* registration and no series behind, so that update_dataframes never       *)
(* meets an unsupported timeframe in its loop.                              *)
C13_UnsupportedTimeframeRejected ==
    /\ \A k \in Keys :
          (Registered(instrument_timeframe_map, k[1], k[2])
              \/ HasSeries(dataframes, k[1], k[2])) => Supported(k[2])
    /\ \A w \in Workers :
          pc[w] = "loop" => \A n \in 1..Len(cur[w].todo) : Supported(cur[w].todo[n])

----------------------------------------------------------------------------
\* A dispatch of worker w fails: the name is not in the module or the
\* strategy raises, or placeOrder raises; an except clause is entered.
DispatchFails(w) ==
    pc[w] \in {"strategy", "order"} /\ pc'[w] = "except"

\* From the failure until the except clause is through.
DispatchFailureIsolated ==
    \A w \in Workers :
        (DispatchFails(w) \/ pc[w] = "except") =>
            /\ pc'[w] \in {"except", "loop"} /\ lock' = w
            /\ cur'[w].todo = cur[w].todo
            /\ dataframes' = dataframes
            /\ PassSeries(w) = ApplyTick(cur[w].before, cur[w].timeframe,
                                        cur[w].timestamp, cur[w].price).df
            /\ instrument_timeframe_map' = instrument_timeframe_map

AddStoresAnyName ==
    (pc[Main] = "add_store" /\ pc'[Main] = "idle") =>
        /\ Registered(instrument_timeframe_map', call.instrument, call.timeframe)
        /\ instrument_timeframe_map'[call.instrument][call.timeframe].strategy_name
              = call.strategy_name

(* C14: when a dispatch fails (strategy name not found, strategy raises,    *)
(* placeOrder raises) update_dataframes goes on with its loop: the candle   *)
(* update of the tick stays applied, the timeframes not yet visited are     *)
(* still to be visited, and no registration and no series is removed.  An   *)
(* add with a name the strategy module does not have is stored like any     *)
(* other, and such a name never gets as far as placeOrder.                  *)
C14_DispatchFailureIsolated ==
    /\ [][DispatchFailureIsolated /\ AddStoresAnyName]_vars
    /\ [](\A w \in Workers : pc[w] = "order" => cur[w].strategy_name \in StrategyModule)

\* A later tick of a key whose dispatch failed on an unknown name has added
\* a candle and is dispatched again, with the earlier candle as history.
C14_Witness ==
    \E w \in Workers :
        /\ pc[w] = "strategy"
        /\ <<cur[w].instrument, cur[w].timeframe>> \in obs.failed
        /\ cur[w].strategy_name \notin StrategyModule
        /\ cur[w].history # <<>>
        /\ cur[w].before = cur[w].history

----------------------------------------------------------------------------
\* add_strategy is between taking the lock and storing: the backfill.
Backfilling == pc[Main] \in {"add_fetch", "add_store"}

\* The backfill that was going on when on_data got the tick worker w carries.
TickDuring(w) ==
    IF obs.id[w] = 0 THEN <<>> ELSE obs.received[obs.id[w]].during

\* The tick worker w carries arrived during the backfill of a key of its
\* instrument.
ArrivedDuringBackfill(w) ==
    TickDuring(w) # <<>> /\ TickDuring(w)[1] = cur[w].instrument

NoTickDuringBackfill ==
    (Backfilling /\ pc'[Main] # "idle") => dataframes' = dataframes

BackfillTickKept ==
    \A w \in Workers :
        ArrivedDuringBackfill(w) =>
            /\ pc[w] = "wait" => pc'[w] # "idle"
            /\ (pc[w] = "loop" /\ pc'[w] = "idle") =>
                   TickDuring(w)[2] \in obs.touched[w]

(* C15: while add_strategy fetches the backfill no series changes until     *)
(* the add has stored the seed, and a tick that arrived during the          *)
(* backfill of a key is not dropped when it gets the lock: its call         *)
(* returns only after the tick was applied to the series of that key.       *)
C15_BackfillTicksApplied ==
    /\ [][NoTickDuringBackfill /\ BackfillTickKept]_vars
    /\ [](\A w \in Workers :
            (ArrivedDuringBackfill(w) /\ w \in InsideLock) =>
                /\ HasSeries(dataframes, cur[w].instrument, TickDuring(w)[2])
                /\ TickDuring(w)[2] \in obs.touched[w]
                      \cup {cur[w].todo[n] : n \in 1..Len(cur[w].todo)})

\* A tick that arrived during the first backfill of a key has been applied
\* to the key's series on top of the seed.
C15_Witness ==
    \E w \in Workers :
        /\ ArrivedDuringBackfill(w)
        /\ pc[w] = "loop"
        /\ cur[w].timeframe = TickDuring(w)[2]
        /\ TickDuring(w)[2] \in obs.touched[w]
        /\ cur[w].before # <<>>
        /\ Len(PassSeries(w)) = Len(cur[w].before) + 1
        /\ callsLeft = AddCalls - 1

----------------------------------------------------------------------------
\* add_strategy returns.
AddReturns == pc[Main] = "add_store" /\ pc'[Main] = "idle"

\* The registration the call of main asks for.
CallRegistration ==
    [strategy_name |-> call.strategy_name, parameters |-> call.parameters]

ReAddReplaces ==
    (AddReturns /\ Registered(instrument_timeframe_map, call.instrument, call.timeframe)) =>
        /\ instrument_timeframe_map'[call.instrument][call.timeframe] = CallRegistration
        /\ DOMAIN instrument_timeframe_map'[call.instrument]
              = DOMAIN instrument_timeframe_map[call.instrument]
        /\ dataframes' = dataframes
        /\ instrument_timeframe_map[call.instrument][call.timeframe] = CallRegistration
              => instrument_timeframe_map' = instrument_timeframe_map

(* C16: add_strategy on a key that is registered replaces the strategy      *)
(* name and parameters of that one registration and leaves every series as  *)
(* it is; with the name and parameters the key already has it changes       *)
(* nothing.                                                                 *)
C16_ReAddReplacesRegistration == [][ReAddReplaces]_vars

\* A key whose candle was opened by a tick has been added again with
\* another strategy name; the candle is still there.
C16_Witness ==
    /\ pc[Main] = "idle" /\ lock = Free
    /\ \E k \in obs.replaced :
          /\ Registered(instrument_timeframe_map, k[1], k[2])
          /\ instrument_timeframe_map[k[1]][k[2]].strategy_name = "Momentum"
          /\ run[k] # <<>>
          /\ Series(dataframes, k[1], k[2]) # <<>>

----------------------------------------------------------------------------
\* getCandleData has answered, by raising or not: add_strategy goes on to
\* store, still under the lock.
FetchGoesOnToStore ==
    (pc[Main] = "add_fetch" /\ pc'[Main] # "add_fetch") =>
        pc'[Main] = "add_store" /\ lock' = Main

FetchFailureStoresEmpty ==
    (AddReturns /\ call.raised
         /\ ~HasSeries(dataframes, call.instrument, call.timeframe)) =>
        /\ Registered(instrument_timeframe_map', call.instrument, call.timeframe)
        /\ instrument_timeframe_map'[call.instrument][call.timeframe] = CallRegistration
        /\ HasSeries(dataframes', call.instrument, call.timeframe)
        /\ Series(dataframes', call.instrument, call.timeframe) = <<>>

\* The first tick of an empty series.
FirstTickOpensFirstCandle ==
    \A w \in Workers :
        (InPass(w) /\ cur[w].before = <<>>) =>
            /\ PassSeries(w) = <<[timestamp |-> TickBucket(w),
                                  open |-> cur[w].price, high |-> cur[w].price,
                                  low |-> cur[w].price, close |-> cur[w].price]>>
            /\ cur[w].new_row_added
            /\ pc[w] = "strategy" => cur[w].history = <<>>

(* C17: when the fetch raises during add_strategy of a key that has no      *)
(* series, the add still stores the registration and the key gets an empty  *)
(* series; the first tick of an empty series opens its first candle, and    *)
(* the strategy is dispatched with an empty history.                        *)
C17_FetchFailureEmptySeries ==
    /\ [][FetchGoesOnToStore /\ FetchFailureStoresEmpty]_vars
    /\ []FirstTickOpensFirstCandle

\* The first tick of a key whose backfill raised is being dispatched: its
\* candle is the only one and the history is empty.
C17_Witness ==
    \E w \in Workers :
        /\ pc[w] = "strategy"
        /\ cur[w].before = <<>>
        /\ cur[w].history = <<>>
        /\ Len(PassSeries(w)) = 1
        /\ Registered(instrument_timeframe_map, cur[w].instrument, cur[w].timeframe)
        /\ obs.replaced = {} /\ removed = {}

----------------------------------------------------------------------------
\* The step is one of worker w inside update_dataframes.
WorkerMoves(w) ==
    pc[w] # "idle" /\ (pc'[w] # pc[w] \/ cur'[w] # cur[w])

UpdateFrame ==
    \A w \in Workers :
        WorkerMoves(w) =>
            /\ instrument_timeframe_map' = instrument_timeframe_map
            /\ \A k \in Keys :
                  /\ HasSeries(dataframes', k[1], k[2]) = HasSeries(dataframes, k[1], k[2])
                  /\ Series(dataframes', k[1], k[2]) # Series(dataframes, k[1], k[2]) =>
                         /\ k[1] = cur[w].instrument
                         /\ pc[w] = "loop" /\ cur[w].todo # <<>> /\ k[2] = Head(cur[w].todo)
                         /\ k[2] \notin obs.touched[w]
                  /\ obs'.dispatches[k] # obs.dispatches[k] =>
                         /\ k[1] = cur[w].instrument
                         /\ pc[w] = "loop" /\ cur[w].todo # <<>> /\ k[2] = Head(cur[w].todo)
                         /\ k[2] \notin obs.touched[w]
                         /\ Len(obs'.dispatches[k]) = Len(obs.dispatches[k]) + 1

(* C18: a step of update_dataframes for a tick of an instrument changes no  *)
(* registration, creates and deletes no series, and changes only the        *)
(* series of the timeframe of that instrument the loop is visiting, each    *)
(* timeframe being visited once in a call; it starts at most one dispatch,  *)
(* for that key.                                                            *)
C18_UpdateFrame == [][UpdateFrame]_vars

\* One call has visited both timeframes of its instrument, added a candle
\* to both of its series and dispatched once for each, while the series of
\* the other instrument are seeds that differ from them.
C18_Witness ==
    \E w \in Workers :
        /\ pc[w] = "loop" /\ cur[w].todo = <<>>
        /\ obs.touched[w] = {"1m", "3m"}
        /\ obs.applied = <<obs.id[w]>>
        /\ \A tf \in {"1m", "3m"} :
              /\ Len(obs.dispatches[<<cur[w].instrument, tf>>]) = 1
              /\ Len(Series(dataframes, cur[w].instrument, tf)) = 1
        /\ \E i \in DOMAIN dataframes :
              /\ i # cur[w].instrument
              /\ \A tf \in {"1m", "3m"} :
                    /\ Series(dataframes, i, tf) = obs.seeds[<<i, tf>>]
                    /\ Series(dataframes, i, tf) # <<>>
                    /\ Series(dataframes, i, tf) # Series(dataframes, cur[w].instrument, tf)

----------------------------------------------------------------------------
SeriesKeys == {k \in Keys : HasSeries(dataframes, k[1], k[2])}

RegisteredKeys == {k \in Keys : Registered(instrument_timeframe_map, k[1], k[2])}

(* C19: in every state in which the lock is free, the keys that have a      *)
(* series are the keys that have a registration.                            *)
C19_SeriesIffRegistration == lock = Free => SeriesKeys = RegisteredKeys

\* The lock is free, one key is registered and has a candle opened by a
\* tick, another key of the same instrument has been removed.
C19_Witness ==
    /\ lock = Free
    /\ \E k \in RegisteredKeys : run[k] # <<>>
    /\ \E k \in removed :
          /\ k \notin RegisteredKeys \cup SeriesKeys
          /\ k[1] \in DOMAIN dataframes
    /\ lost # {}

----------------------------------------------------------------------------
\* Two ticks of one instrument, the first received before the second.
ReceivedInOrder(m, n) ==
    m < n /\ obs.received[m].token = obs.received[n].token

\* on_data has got the ticks of every instrument in timestamp order.
FeedInTimestampOrder ==
    \A m, n \in 1..Len(obs.received) :
        ReceivedInOrder(m, n) => obs.received[m].timestamp <= obs.received[n].timestamp

(* C20: ticks of one instrument take the lock of update_dataframes in the   *)
(* order on_data received them, and while the feed is in timestamp order    *)
(* no tick finds a series whose open candle is of a later bucket.           *)
C20_AppliedInReceivedOrder ==
    /\ \A a, b \in 1..Len(obs.applied) :
          (a < b /\ obs.received[obs.applied[a]].token = obs.received[obs.applied[b]].token)
              => obs.applied[a] < obs.applied[b]
    /\ FeedInTimestampOrder => \A w \in Workers : ~LateTick(w)

----------------------------------------------------------------------------
\* Threads at the with self.lock line of a method.
WaitingForLock ==
    {w \in Workers : pc[w] = "wait"}
        \cup (IF pc[Main] \in {"add_wait", "stop_wait", "stop_all_wait"}
              THEN {Main} ELSE {})

\* The lock is held exactly by the thread inside a with block: a thread that
\* has left its method, by whatever path, does not hold it, and a thread
\* that waits for it does not hold it.
LockHeldInsideOnly ==
    /\ lock # Free => lock \in InsideLock
    /\ InsideLock \subseteq {lock}
    /\ WaitingForLock \cap {lock} = {}

\* Not every thread of the program waits for a lock that is held.
NotAllWaiting == ~(lock # Free /\ WaitingForLock = Threads)

(* C21: the lock is held only by a thread inside the with block of a        *)
(* method, so every exit path has released it and no thread asks for it     *)
(* while holding it; never do all threads wait for it; and, the external    *)
(* calls returning and the lock being fair, every operation a thread has    *)
(* started comes to its end.                                                *)
C21_LockReleasedOperationsComplete ==
    /\ [](LockHeldInsideOnly /\ NotAllWaiting)
    /\ \A t \in Threads : (pc[t] # "idle") ~> (pc[t] = "idle")

\* Everything the feed and main had to do is done and the lock is free,
\* after with blocks were left by a normal return, by an early return, after
\* a caught exception and by an exception nothing in the method caught.
C21_Witness ==
    /\ \A t \in Threads : pc[t] = "idle"
    /\ lock = Free
    /\ ticksLeft = 0 /\ callsLeft = 0 /\ queue = <<>>
    /\ obs.exits = {"return", "early", "caught", "uncaught"}
    /\ Registered(instrument_timeframe_map, "3045", "1m")
====
